---------------------------- MODULE Spec2Model ----------------------------
(***************************************************************************)
(* A model of graphite-web's HBase finder (finders/hbase.py) and of the    *)
(* series readers MultiReader and HBaseReader (readers.py).                *)
(*                                                                         *)
(* A series is the Python pair (time_info, values) with                    *)
(* time_info = (start, end, step): here <<<<start, end, step>>, values>>.  *)
(* Python's None in a value list is the string "None".  A Python string    *)
(* that the code inspects character by character (a pattern segment, a     *)
(* row key) is the sequence of its characters.                             *)
(***************************************************************************)
EXTENDS Integers, Sequences, FiniteSets, TLC

VARIABLES
  \* MultiReader.merge / HBaseReader._merge
  results1, results2, merged, op,
  \* HBaseReader.fetch and HBaseReader._table_config
  retentions, startTime, endTime, now, table_config, hpc, hexc, hresult, scans,
  \* MultiReader.fetch
  nodes, mresults, mpc, mi, mexc, mreturn,
  \* HBaseFinder._cheaper_patterns
  pattern, final_chunks, ppc,
  \* HBaseFinder.find_nodes and HBaseFinder._find_paths
  store, query, pattern_parts, stack, yielded, fpc, fexc

mergeVars == <<results1, results2, merged, op>>
hbaseVars == <<retentions, startTime, endTime, now, table_config, hpc, hexc,
               hresult, scans>>
multiVars == <<nodes, mresults, mpc, mi, mexc, mreturn>>
patternVars == <<pattern, final_chunks, ppc>>
finderVars == <<store, query, pattern_parts, stack, yielded, fpc, fexc>>
vars == <<mergeVars, hbaseVars, multiVars, patternVars, finderVars>>

(***************************************************************************)
(* Bounds of the model.                                                    *)
(***************************************************************************)
MaxLen == 2        \* slots of an input series
MaxStart == 2      \* latest start of an input series
MaxStep == 2       \* coarsest step of an input series

None == "None"
Min(a, b) == IF a < b THEN a ELSE b
Max(a, b) == IF a > b THEN a ELSE b

(***************************************************************************)
(* Python 2 list semantics.                                                *)
(***************************************************************************)
\* values[i] of a Python list: a negative index counts from the end, an index
\* outside -len .. len-1 raises IndexError.
PyIndex(values, i) ==
  IF i >= 0 /\ i < Len(values) THEN values[i + 1]
  ELSE IF i < 0 /\ -i <= Len(values) THEN values[Len(values) + i + 1]
  ELSE "IndexError"

\* a / b on Python 2 ints: floor division.
PyDiv(a, b) == a \div b

\* the number of passes of "t = start; while t < end: ...; t += step", which is
\* also len(xrange(start, end, step)).
Passes(start, end, step) ==
  IF end > start THEN (end - start + step - 1) \div step ELSE 0

(***************************************************************************)
(* The body of the merge loop, the same text in both merges: the value     *)
(* appended for slot time t, results1 being the series the swap put first. *)
(***************************************************************************)
SlotValue(r1, r2, t) ==
  LET values1 == r1[2]
      values2 == r2[2]
      start1 == r1[1][1]
      step1 == r1[1][3]
      start2 == r2[1][1]
      step2 == r2[1][3]
      i1 == PyDiv(t - start1, step1)
      v1 == IF Len(values1) > i1 THEN PyIndex(values1, i1) ELSE None
      i2 == PyDiv(t - start2, step2)
      v2 == IF Len(values2) > i2 THEN PyIndex(values2, i2) ELSE None
  IN IF v1 = None THEN v2 ELSE v1

\* The merge once its two arguments are in the order the swap leaves them in.
\* The result is [exc, value]: value is the returned series, or <<>> when the
\* loop raised.
MergeOrdered(r1, r2) ==
  LET step == r1[1][3]
      start == Min(r1[1][1], r2[1][1])
      end == Max(r1[1][2], r2[1][2])
      n == Passes(start, end, step)
      values == [k \in 1..n |-> SlotValue(r1, r2, start + (k - 1) * step)]
  IN IF \E k \in 1..n : values[k] = "IndexError"
       THEN [exc |-> "IndexError", value |-> <<>>]
       ELSE [exc |-> "none", value |-> <<<<start, end, step>>, values>>]

\* A merge that keeps its arguments in call order.
MultiReader_merge_NoSwap(r1, r2) == MergeOrdered(r1, r2)

\* MultiReader.merge
MultiReader_merge(r1, r2) ==
  IF r1[1][3] > r2[1][3] THEN MergeOrdered(r2, r1) ELSE MergeOrdered(r1, r2)

\* HBaseReader._merge
HBaseReader_merge(r1, r2) ==
  IF r1[1][3] < r2[1][3] THEN MergeOrdered(r2, r1) ELSE MergeOrdered(r1, r2)

(***************************************************************************)
(* Input series: len(values) = (end - start) / step.                       *)
(***************************************************************************)
Values == {None, "x", "y"}
ValueLists == UNION {[1..n -> Values] : n \in 1..MaxLen}
SeriesSet ==
  {<<<<s, s + Len(v) * st, st>>, v>> :
     s \in 0..MaxStart, st \in 1..MaxStep, v \in ValueLists}

Idle == <<>>

\* the variables of the operations a specification leaves out
MergeIdle ==
  /\ results1 = Idle /\ results2 = Idle /\ op = "idle"
  /\ merged = [exc |-> "none", value |-> <<>>]
HBaseIdle ==
  /\ retentions = Idle /\ startTime = 0 /\ endTime = 0 /\ now = 0
  /\ table_config = Idle /\ hpc = "idle" /\ hexc = "none" /\ hresult = Idle
  /\ scans = 0
MultiIdle ==
  /\ nodes = Idle /\ mresults = Idle /\ mpc = "idle" /\ mi = 0
  /\ mexc = "none" /\ mreturn = Idle
PatternIdle == pattern = Idle /\ final_chunks = Idle /\ ppc = "idle"
FinderIdle ==
  /\ store = Idle /\ query = Idle /\ pattern_parts = Idle /\ stack = Idle
  /\ yielded = Idle /\ fpc = "idle" /\ fexc = "none"

MergeInit ==
  /\ results1 \in SeriesSet
  /\ results2 \in SeriesSet
  /\ merged = [exc |-> "none", value |-> <<>>]
  /\ op = "none"
  /\ HBaseIdle /\ MultiIdle /\ PatternIdle /\ FinderIdle

MultiMerge ==
  /\ op = "none"
  /\ merged' = MultiReader_merge(results1, results2)
  /\ op' = "MultiReader.merge"
  /\ UNCHANGED <<results1, results2, hbaseVars, multiVars, patternVars,
                 finderVars>>

HBaseMerge ==
  /\ op = "none"
  /\ merged' = HBaseReader_merge(results1, results2)
  /\ op' = "HBaseReader._merge"
  /\ UNCHANGED <<results1, results2, hbaseVars, multiVars, patternVars,
                 finderVars>>

MergeNext == MultiMerge \/ HBaseMerge

MergeSpec == MergeInit /\ [][MergeNext]_vars

(***************************************************************************)
(* Properties of the merges.                                              *)
(***************************************************************************)
Start(r) == r[1][1]
End(r) == r[1][2]
Step(r) == r[1][3]
Finer(r1, r2) == IF Step(r1) < Step(r2) THEN r1 ELSE r2
Coarser(r1, r2) == IF Step(r1) < Step(r2) THEN r2 ELSE r1
InWindow(r, t) == Start(r) <= t /\ t < End(r)
\* the value of series r at the slot covering time t, for t inside r's window
ValueAt(r, t) == r[2][((t - Start(r)) \div Step(r)) + 1]
\* the slot value the finer-wins rule asks for at time t
FinerWins(fine, coarse, t) ==
  IF InWindow(fine, t) /\ ValueAt(fine, t) # None THEN ValueAt(fine, t)
  ELSE IF InWindow(coarse, t) THEN ValueAt(coarse, t)
  ELSE None
UnionStart == Min(Start(results1), Start(results2))
UnionEnd == Max(End(results1), End(results2))
FinestStep == Min(Step(results1), Step(results2))

\* C1: MultiReader.merge of two series with different steps returns, for every
\* slot time t of [min start, max end) stepped by the finer step, the finer
\* series' value at t when t is inside its window and the value is non-null,
\* else the coarser series' value at t when t is inside its window, else null.
C1_FinerWinsEverySlot ==
  (op = "MultiReader.merge" /\ Step(results1) # Step(results2)) =>
    /\ merged.exc = "none"
    /\ Len(merged.value[2]) = Passes(UnionStart, UnionEnd, FinestStep)
    /\ \A k \in 1..Len(merged.value[2]) :
         merged.value[2][k] =
           FinerWins(Finer(results1, results2), Coarser(results1, results2),
                     UnionStart + (k - 1) * FinestStep)

\* C2: HBaseReader._merge of two series with different steps returns a series
\* whose step is the smaller input step and whose window is
\* [min start, max end), the finer input's non-null values taking precedence.
C2_HBaseMergeFinerStep ==
  (op = "HBaseReader._merge" /\ Step(results1) # Step(results2)
     /\ merged.exc = "none") =>
    /\ merged.value[1] = <<UnionStart, UnionEnd, FinestStep>>
    /\ \A k \in 1..Len(merged.value[2]) :
         LET t == UnionStart + (k - 1) * FinestStep
             fine == Finer(results1, results2)
         IN (InWindow(fine, t) /\ ValueAt(fine, t) # None) =>
              merged.value[2][k] = ValueAt(fine, t)

\* the merge the last action applied, with its arguments in the other order
MergedSwapped ==
  IF op = "MultiReader.merge" THEN MultiReader_merge(results2, results1)
  ELSE HBaseReader_merge(results2, results1)

\* C9 (as stated): merge(A, B) = merge(B, A) for any two series, two series of
\* the same step included, for MultiReader.merge and HBaseReader._merge.
C9_MergeCommutes == (op # "none") => merged = MergedSwapped

\* C9 (amended): merge(A, B) = merge(B, A) for any two series whose steps
\* differ, for MultiReader.merge and HBaseReader._merge.
C9_MergeCommutesOnDistinctSteps ==
  (op # "none" /\ Step(results1) # Step(results2)) => merged = MergedSwapped

\* a merge of a coarser first argument with a finer second one, both giving
\* values to the result
C9_Witness ==
  /\ op = "MultiReader.merge"
  /\ Step(results1) > Step(results2)
  /\ merged.exc = "none"
  /\ \E j, k \in 1..Len(merged.value[2]) :
       merged.value[2][j] = "x" /\ merged.value[2][k] = "y"
  /\ merged = MergedSwapped

(***************************************************************************)
(* HBaseReader.fetch and HBaseReader._table_config.                        *)
(*                                                                         *)
(* A retention tier is the pair <<secondsPerPoint, points>>.  A scan       *)
(* descriptor keeps the keys the planner computes: r, start, end and step  *)
(* (metric, thrift, method and name are copied or formatted strings).      *)
(***************************************************************************)
MaxTiers == 2      \* retention tiers of a reader
MaxNow == 5        \* latest time of a request and of the reference clock

\* fmt % args: fmt is the list of the format string's pieces, "%s" being a
\* conversion; a non-tuple argument counts as one argument.  The operator
\* raises TypeError unless every argument is converted.
PyFormat(fmt, args) ==
  IF Cardinality({i \in 1..Len(fmt) : fmt[i] = "%s"}) = Len(args)
    THEN "ok" ELSE "TypeError"

\* the right operands of % at lines 354 and 358: % binds tighter than +
FmtUntil == <<"until time '", "%s", "'">>
FmtFuture == <<"in the future!">>

\* fetch rejects a window whose start lies after its end only
Rejected_NoFutureCheck(start, end, clock) == start > end

\* the two guards of fetch
Rejected(start, end, clock) == start > end \/ start > clock

\* the loop of _table_config from tier i on: <<descriptors, final_step>>
RECURSIVE PlanFrom(_, _, _, _, _, _, _, _)
PlanFrom(tiers, start, end, clock, i, offset, final_step, acc) ==
  IF i > Len(tiers) THEN <<acc, final_step>>
  ELSE
    LET r == tiers[i]
        r_secs == r[1] * r[2]
        cur_end == clock - offset
        offset2 == offset + r_secs
        cur_start == clock - offset2
    IN IF cur_end < start THEN <<acc, final_step>>
       ELSE IF cur_start > end
         THEN PlanFrom(tiers, start, end, clock, i + 1, offset2, final_step, acc)
       ELSE PlanFrom(tiers, start, end, clock, i + 1, offset2,
                     Min(r[1], final_step),
                     Append(acc, [r |-> r, end |-> cur_end,
                                  start |-> Max(cur_start, start)]))

\* HBaseReader._table_config
TableConfig(tiers, start, end, clock) ==
  LET p == PlanFrom(tiers, start, end, clock, 1, 0, tiers[Len(tiers)][1], <<>>)
  IN [k \in 1..Len(p[1]) |->
        [r |-> p[1][k].r, start |-> p[1][k].start, end |-> p[1][k].end,
         step |-> p[2]]]

Tiers == (1..MaxStep) \X (1..MaxLen)
RetentionLists == UNION {[1..n -> Tiers] : n \in 1..MaxTiers}

HBaseInit ==
  /\ retentions \in RetentionLists
  /\ startTime \in 0..MaxNow
  /\ endTime \in 0..MaxNow
  /\ now \in 0..MaxNow
  /\ table_config = Idle
  /\ hpc = "fetch"
  /\ hexc = "none"
  /\ hresult = Idle
  /\ scans = 0
  /\ MergeIdle /\ MultiIdle /\ PatternIdle /\ FinderIdle

\* lines 352-361: the guards, the log messages and the clamp of endTime
Validate ==
  /\ hpc = "fetch"
  /\ IF Rejected(startTime, endTime, now)
       THEN LET msg == IF startTime > endTime
                         THEN PyFormat(FmtUntil, <<startTime, endTime>>)
                         ELSE PyFormat(FmtFuture, <<startTime>>)
            IN /\ hexc' = IF msg = "TypeError" THEN "TypeError" ELSE "none"
               /\ hpc' = IF msg = "TypeError" THEN "raised" ELSE "returned"
               /\ UNCHANGED endTime
       ELSE /\ endTime' = IF endTime > now THEN now ELSE endTime
            /\ hpc' = "valid"
            /\ UNCHANGED hexc
  /\ UNCHANGED <<retentions, startTime, now, table_config, hresult, scans,
                 mergeVars, multiVars, patternVars, finderVars>>

\* lines 363-367
Plan ==
  /\ hpc = "valid"
  /\ table_config' = TableConfig(retentions, startTime, endTime, now)
  /\ hpc' = "planned"
  /\ UNCHANGED <<retentions, startTime, endTime, now, hexc, hresult, scans,
                 mergeVars, multiVars, patternVars, finderVars>>

\* line 368: readers.py neither defines nor imports Pool, the call raises
\* NameError and no _scan_table call is made
MakePool ==
  /\ hpc = "planned"
  /\ hexc' = "NameError"
  /\ hpc' = "raised"
  /\ UNCHANGED <<retentions, startTime, endTime, now, table_config, hresult,
                 scans, mergeVars, multiVars, patternVars, finderVars>>

HBaseNext == Validate \/ Plan \/ MakePool

HBaseSpec == HBaseInit /\ [][HBaseNext]_vars

\* the offset of tier k: the spans of the tiers before it
RECURSIVE OffsetOf(_)
OffsetOf(k) ==
  IF k = 1 THEN 0
  ELSE OffsetOf(k - 1) + retentions[k - 1][1] * retentions[k - 1][2]
TierEnd(k) == now - OffsetOf(k)
TierStart(k) == TierEnd(k) - retentions[k][1] * retentions[k][2]
ClampedStart(k) == Max(TierStart(k), startTime)
ClampedEnd(k) == Min(TierEnd(k), endTime)
\* the descriptors of the tiers from k on whose interval meets [start, end)
RECURSIVE IntersectingFrom(_)
IntersectingFrom(k) ==
  IF k > Len(retentions) THEN <<>>
  ELSE (IF ClampedStart(k) < ClampedEnd(k)
          THEN <<<<retentions[k], ClampedStart(k), ClampedEnd(k)>>>>
          ELSE <<>>) \o IntersectingFrom(k + 1)

\* C3: for start <= end <= now the plan holds a descriptor for exactly the
\* tiers whose interval [now - offset - step*count, now - offset) meets
\* [start, end), each with (start, end) equal to that intersection.
C3_PlanIsIntersection ==
  (hpc = "planned") =>
    [k \in 1..Len(table_config) |->
       <<table_config[k].r, table_config[k].start, table_config[k].end>>]
      = IntersectingFrom(1)

\* C8: a fetch with start > end or start > now ends with an exception raised
\* to the caller, no plan computed, no scan issued and no series returned.
C8_InvalidRequestRejected ==
  (hpc # "fetch" /\ (startTime > endTime \/ startTime > now)) =>
    /\ hpc = "raised"
    /\ hexc # "none"
    /\ table_config = Idle
    /\ scans = 0
    /\ hresult = Idle

\* a request from the future with start <= end, rejected
C8_Witness ==
  /\ hpc = "raised"
  /\ hexc = "TypeError"
  /\ startTime > now
  /\ startTime <= endTime

(***************************************************************************)
(* MultiReader.fetch.                                                      *)
(*                                                                         *)
(* A source reader is [kind, series]: its fetch returns the series         *)
(* ("series"), returns a FetchInProgress whose waitForResults returns the  *)
(* series ("pending") or raises ("pending_raises"), returns None ("none")  *)
(* or raises ("raises").  An entry of the results list is [tag, series].   *)
(***************************************************************************)
MaxNodes == 2      \* source readers of a MultiReader

Kinds == {"series", "pending", "pending_raises", "none", "raises"}
Readers == [kind : Kinds, series : SeriesSet]
NoSeries == <<<<0, 0, 0>>, <<>>>>

\* n.fetch(startTime, endTime) of one source that does not raise
FetchOf(n) ==
  CASE n.kind = "series" -> [tag |-> "series", series |-> n.series]
    [] n.kind = "pending" -> [tag |-> "pending", series |-> n.series]
    [] n.kind = "pending_raises" -> [tag |-> "pending_raises", series |-> NoSeries]
    [] OTHER -> [tag |-> "None", series |-> NoSeries]

\* lines 54-59: the entry that replaces a result once it was waited for
Waited(r) ==
  IF r.tag = "pending" THEN [tag |-> "series", series |-> r.series]
  ELSE IF r.tag = "pending_raises" THEN [tag |-> "None", series |-> NoSeries]
  ELSE r

\* line 61
NotNone(rs) == SelectSeq(rs, LAMBDA r : r.tag # "None")

\* reduce(self.merge, series) for a non-empty list of series: [exc, value]
RECURSIVE ReduceFrom(_, _, _)
ReduceFrom(acc, series, k) ==
  IF k > Len(series) THEN [exc |-> "none", value |-> acc]
  ELSE LET m == MultiReader_merge(acc, series[k])
       IN IF m.exc # "none" THEN m ELSE ReduceFrom(m.value, series, k + 1)
Reduce(series) == ReduceFrom(series[1], series, 2)

MultiInit ==
  /\ nodes \in UNION {[1..n -> Readers] : n \in 1..MaxNodes}
  /\ mresults = <<>>
  /\ mpc = "start"
  /\ mi = 1
  /\ mexc = "none"
  /\ mreturn = Idle
  /\ MergeIdle /\ HBaseIdle /\ PatternIdle /\ FinderIdle

\* line 50: the fetch of source mi; an exception it raises leaves fetch
StartFetch ==
  /\ mpc = "start"
  /\ IF nodes[mi].kind = "raises"
       THEN /\ mexc' = "Exception"
            /\ mpc' = "raised"
            /\ UNCHANGED <<mresults, mi>>
       ELSE /\ mresults' = Append(mresults, FetchOf(nodes[mi]))
            /\ mi' = IF mi = Len(nodes) THEN 1 ELSE mi + 1
            /\ mpc' = IF mi = Len(nodes) THEN "wait" ELSE "start"
            /\ UNCHANGED mexc
  /\ UNCHANGED <<nodes, mreturn, mergeVars, hbaseVars, patternVars, finderVars>>

\* lines 53-59: one pass of the loop over the results
WaitForResults ==
  /\ mpc = "wait"
  /\ mresults' = [mresults EXCEPT ![mi] = Waited(mresults[mi])]
  /\ mi' = IF mi = Len(mresults) THEN 1 ELSE mi + 1
  /\ mpc' = IF mi = Len(mresults) THEN "reduce" ELSE "wait"
  /\ UNCHANGED <<nodes, mexc, mreturn, mergeVars, hbaseVars, patternVars,
                 finderVars>>

\* lines 61-65
FilterAndReduce ==
  /\ mpc = "reduce"
  /\ LET kept == NotNone(mresults)
         series == [k \in 1..Len(kept) |-> kept[k].series]
     IN IF kept = <<>>
          THEN /\ mexc' = "All sub-fetches failed"
               /\ mpc' = "raised"
               /\ UNCHANGED mreturn
          ELSE LET m == Reduce(series)
               IN /\ mexc' = m.exc
                  /\ mpc' = IF m.exc = "none" THEN "returned" ELSE "raised"
                  /\ mreturn' = m.value
  /\ UNCHANGED <<nodes, mresults, mi, mergeVars, hbaseVars, patternVars,
                 finderVars>>

MultiNext == StartFetch \/ WaitForResults \/ FilterAndReduce

MultiSpec == MultiInit /\ [][MultiNext]_vars

\* the series of the sources that produced one, in source order
Succeeded ==
  LET ok == SelectSeq(nodes, LAMBDA n : n.kind \in {"series", "pending"})
  IN [k \in 1..Len(ok) |-> ok[k].series]

\* C4: MultiReader.fetch fails if and only if every source failed; when a
\* source produced a series it returns the left-to-right merge fold of the
\* series of the sources that succeeded.
C4_FailsOnlyWhenAllFail ==
  (mpc \in {"raised", "returned"}) =>
    IF Succeeded = <<>>
      THEN mpc = "raised"
      ELSE /\ mpc = "returned"
           /\ mreturn = Reduce(Succeeded).value

(***************************************************************************)
(* HBaseFinder._cheaper_patterns.                                          *)
(*                                                                         *)
(* A pattern segment is the sequence of its characters; the list handed to *)
(* _cheaper_patterns is query.pattern.split("."), which is never empty.    *)
(***************************************************************************)
MaxSegs == 3       \* segments of a pattern

\* line 128
excluded == {"*", "[", "]", "{", "}", "?"}

\* any(x in chunk for x in excluded)
HasGlob(chunk) == \E i \in 1..Len(chunk) : chunk[i] \in excluded

\* lines 132-138: the while loop, current_string and the list left of pattern
RECURSIVE JoinLoop(_, _)
JoinLoop(current_string, rest) ==
  IF HasGlob(rest[1]) THEN <<current_string>> \o rest
  ELSE LET joined == current_string \o <<".">> \o rest[1]
       IN IF Tail(rest) = <<>> THEN <<joined>>
          ELSE JoinLoop(joined, Tail(rest))

\* HBaseFinder._cheaper_patterns
CheaperPatterns(p) ==
  IF Len(p) < 2 THEN p ELSE JoinLoop(p[1], Tail(p))

\* ".".join(segments)
RECURSIVE DotJoin(_)
DotJoin(segments) ==
  IF segments = <<>> THEN <<>>
  ELSE IF Len(segments) = 1 THEN segments[1]
  ELSE segments[1] \o <<".">> \o DotJoin(Tail(segments))

SegmentSet ==
  {<<c>> : c \in excluded \cup {"a", "b"}} \cup {<<"a", "*">>, <<"q", "p", "s">>}
PatternSet == UNION {[1..n -> SegmentSet] : n \in 1..MaxSegs}

PatternInit ==
  /\ pattern \in PatternSet
  /\ final_chunks = <<>>
  /\ ppc = "call"
  /\ MergeIdle /\ HBaseIdle /\ MultiIdle /\ FinderIdle

Compress ==
  /\ ppc = "call"
  /\ final_chunks' = CheaperPatterns(pattern)
  /\ ppc' = "returned"
  /\ UNCHANGED <<pattern, mergeVars, hbaseVars, multiVars, finderVars>>

PatternNext == Compress

PatternSpec == PatternInit /\ [][PatternNext]_vars

\* the length of the longest prefix of p whose segments hold no glob character
RECURSIVE LiteralRun(_)
LiteralRun(p) ==
  IF p = <<>> \/ HasGlob(p[1]) THEN 0 ELSE 1 + LiteralRun(Tail(p))

\* C7: the output is the maximal leading run of glob-free segments joined with
\* "." into one segment, followed by the remaining segments unchanged; fewer
\* than 2 segments, or a first segment with a glob character, give the input
\* back; the output joined with "." equals the input joined with ".".
C7_LeadingLiteralRunJoined ==
  (ppc = "returned") =>
    /\ final_chunks =
         IF Len(pattern) < 2 \/ LiteralRun(pattern) = 0 THEN pattern
         ELSE <<DotJoin(SubSeq(pattern, 1, LiteralRun(pattern)))>>
                \o SubSeq(pattern, LiteralRun(pattern) + 1, Len(pattern))
    /\ DotJoin(final_chunks) = DotJoin(pattern)

(***************************************************************************)
(* HBaseFinder.find_nodes and HBaseFinder._find_paths.                     *)
(*                                                                         *)
(* A row of the meta table is a Python dict: a function from column names  *)
(* to values.  A column name is the sequence <<prefix, characters...>>,    *)
(* the family prefix "t::c_" or the whole name "t::NODE" being one item.   *)
(* store maps a row key to [error, row]: a get of a row with error raises  *)
(* (and _get_row returns None), a get of a key the store does not hold     *)
(* returns the empty dict.  The store is read only.                        *)
(*                                                                         *)
(* _find_paths is a generator consumed by the loop of find_nodes; stack    *)
(* holds its nested activations, the innermost last, and yielded the nodes *)
(* find_nodes has produced so far.                                         *)
(***************************************************************************)
ROOT == <<"ROOT">>
\* lines 11-13
COLUMN_NAME == <<"t::NODE">>
RETEN_NAME == <<"t::AGG">>
METHOD_NAME == <<"t::AGG_METHOD">>
\* line 83
ChildPrefix == "t::c_"

Names == {<<"a">>, <<"b">>}
SortedNames == <<<<"a">>, <<"b">>>>
RowKeys == {ROOT} \cup Names

ChildCol(name) == <<ChildPrefix>> \o name
LeafCols ==
  (COLUMN_NAME :> <<"1">>) @@ (RETEN_NAME :> <<"[[60, 1440]]">>)
    @@ (METHOD_NAME :> <<"avg">>)
\* the row of a branch whose child entries are kids (name -> row key)
BranchCols(kids) ==
  [c \in {ChildCol(n) : n \in DOMAIN kids} |-> kids[Tail(c)]]
KidMaps == UNION {[S -> RowKeys] : S \in SUBSET Names}
Rows ==
  {[error |-> TRUE, row |-> <<>>], [error |-> FALSE, row |-> LeafCols]}
    \cup {[error |-> FALSE, row |-> BranchCols(kids)] : kids \in KidMaps}
Stores == [RowKeys -> Rows]

\* HBaseFinder._get_row: [none, cols], none standing for Python's None
GetRow(key) ==
  IF key \notin DOMAIN store THEN [none |-> FALSE, cols |-> <<>>]
  ELSE IF store[key].error THEN [none |-> TRUE, cols |-> <<>>]
  ELSE [none |-> FALSE, cols |-> store[key].row]

\* not nodeRow or len(nodeRow) < 1
Falsy(row) == row.none \/ DOMAIN row.cols = {}
\* bool(d.get(COLUMN_NAME, False))
HasMarker(cols) == COLUMN_NAME \in DOMAIN cols /\ cols[COLUMN_NAME] # <<>>

\* lines 81-89: the child entries of a row, name -> row key
Subnodes(cols) ==
  [n \in {Tail(k) : k \in {c \in DOMAIN cols : c[1] = ChildPrefix}}
     |-> cols[ChildCol(n)]]

\* shell-glob match of a name against a pattern segment with * and ?
RECURSIVE GlobMatch(_, _)
GlobMatch(name, pat) ==
  IF pat = <<>> THEN name = <<>>
  ELSE IF pat[1] = "*"
    THEN GlobMatch(name, Tail(pat))
           \/ (name # <<>> /\ GlobMatch(Tail(name), pat))
  ELSE IF pat[1] = "?" THEN name # <<>> /\ GlobMatch(Tail(name), Tail(pat))
  ELSE name # <<>> /\ name[1] = pat[1] /\ GlobMatch(Tail(name), Tail(pat))

\* match_entries(entries, pattern): the matching names, sorted
MatchEntries(entries, pat) ==
  SelectSeq(SortedNames, LAMBDA n : n \in entries /\ GlobMatch(n, pat))

\* lines 52-59: the node find_nodes makes of one yield of _find_paths; rowkey
\* records the row the node stands for (<<>> for the empty sentinel)
Classify(subnode, bundle, rowkey) ==
  [type |-> IF HasMarker(bundle) THEN "Leaf" ELSE "Branch",
   name |-> subnode, rowkey |-> rowkey]

\* an activation of _find_paths that has not run yet
Called(key, patterns) ==
  [key |-> key, patterns |-> patterns, phase |-> "enter", todo |-> <<>>,
   subnodes |-> <<>>, rest |-> <<>>]

\* line 107 recursing with the list it was called with
RecurseWith_SamePatterns(frame) == frame.patterns

\* line 107: the patterns handed to the recursive call
RecurseWith(frame) == frame.rest

QuerySegments == {<<"a">>, <<"*">>}
Queries == UNION {[1..n -> QuerySegments] : n \in 1..MaxSegs}

FinderInit ==
  /\ store \in Stores
  /\ query \in Queries
  /\ pattern_parts = <<>>
  /\ stack = <<>>
  /\ yielded = <<>>
  /\ fpc = "find_nodes"
  /\ fexc = "none"
  /\ MergeIdle /\ HBaseIdle /\ MultiIdle /\ PatternIdle

\* lines 40-51: the start row and the first call of _find_paths
FindNodes ==
  /\ fpc = "find_nodes"
  /\ LET parts == CheaperPatterns(query)
         start_string == IF parts[1] \in {<<"*">>, ROOT} THEN ROOT ELSE parts[1]
     IN /\ pattern_parts' = Tail(parts)
        /\ stack' = <<Called(start_string, Tail(parts))>>
  /\ fpc' = "running"
  /\ UNCHANGED <<store, query, yielded, fexc, mergeVars, hbaseVars, multiVars,
                 patternVars>>

\* lines 67-91 of the innermost activation, with the nodes find_nodes makes
\* of its yields; nodeRow.get on None raises AttributeError
EnterFindPaths ==
  /\ fpc = "running"
  /\ stack[Len(stack)].phase = "enter"
  /\ LET top == stack[Len(stack)]
         nodeRow == GetRow(top.key)
         sentinel == IF Falsy(nodeRow)
                       THEN <<Classify(<<>>, <<>>, <<>>)>> ELSE <<>>
         leaf == IF HasMarker(nodeRow.cols)
                   THEN <<Classify(top.key, nodeRow.cols, top.key)>> ELSE <<>>
         pat == IF top.patterns # <<>> THEN top.patterns[1] ELSE <<"*">>
         rest == IF top.patterns # <<>> THEN Tail(top.patterns) ELSE <<>>
         subnodes == Subnodes(nodeRow.cols)
     IN IF nodeRow.none
          THEN /\ yielded' = yielded \o sentinel
               /\ fexc' = "AttributeError"
               /\ fpc' = "raised"
               /\ UNCHANGED stack
          ELSE /\ yielded' = yielded \o sentinel \o leaf
               /\ stack' = [stack EXCEPT ![Len(stack)] =
                    [key |-> top.key, patterns |-> top.patterns,
                     phase |-> "loop",
                     todo |-> MatchEntries(DOMAIN subnodes, pat),
                     subnodes |-> subnodes, rest |-> rest]]
               /\ UNCHANGED <<fexc, fpc>>
  /\ UNCHANGED <<store, query, pattern_parts, mergeVars, hbaseVars, multiVars,
                 patternVars>>

\* lines 93-111: one pass of the loop over matching_subnodes
LoopStep ==
  /\ fpc = "running"
  /\ stack[Len(stack)].phase = "loop"
  /\ stack[Len(stack)].todo # <<>>
  /\ LET top == stack[Len(stack)]
         subnode == top.todo[1]
         rowKey == top.subnodes[subnode]
         subNodeContents == GetRow(rowKey)
         popped == [stack EXCEPT ![Len(stack)].todo = Tail(top.todo)]
     IN IF top.rest # <<>>
          THEN /\ stack' =
                    IF Falsy(subNodeContents) THEN popped
                    ELSE IF COLUMN_NAME \notin DOMAIN subNodeContents.cols
                      THEN Append(popped, Called(rowKey, RecurseWith(top)))
                    ELSE popped
               /\ UNCHANGED yielded
          ELSE /\ yielded' =
                    Append(yielded, Classify(subnode, top.subnodes, rowKey))
               /\ stack' = popped
  /\ UNCHANGED <<store, query, pattern_parts, fpc, fexc, mergeVars, hbaseVars,
                 multiVars, patternVars>>

\* the innermost activation is exhausted
Return ==
  /\ fpc = "running"
  /\ stack[Len(stack)].phase = "loop"
  /\ stack[Len(stack)].todo = <<>>
  /\ stack' = SubSeq(stack, 1, Len(stack) - 1)
  /\ fpc' = IF Len(stack) = 1 THEN "done" ELSE "running"
  /\ UNCHANGED <<store, query, pattern_parts, yielded, fexc, mergeVars,
                 hbaseVars, multiVars, patternVars>>

FinderNext == FindNodes \/ EnterFindPaths \/ LoopStep \/ Return

FinderSpec == FinderInit /\ [][FinderNext]_vars

\* the generator is run to its end by the consumer of find_nodes
FinderFairSpec == FinderSpec /\ WF_vars(FinderNext)

\* C5: every node find_nodes yields for a row is a Leaf if and only if that
\* row carries the leaf marker column, a child matched by the last pattern
\* segment included.
C5_LeafIffMarker ==
  \A i \in 1..Len(yielded) :
    (yielded[i].rowkey # <<>>) =>
      ((yielded[i].type = "Leaf")
         <=> HasMarker(GetRow(yielded[i].rowkey).cols))

\* C6: resolution through a dead row (absent, empty, or a get that raised)
\* yields no node for it, the empty sentinel is never made a node, and no
\* exception reaches the caller.
C6_DeadRowYieldsNothing ==
  /\ fexc = "none"
  /\ \A i \in 1..Len(yielded) : yielded[i].name # <<>>

\* every nested activation was called with a non-empty list strictly shorter
\* than its caller's, on a row without the leaf marker, and the nesting is at
\* most the number of pattern segments plus one
NestingBounded ==
  /\ Len(stack) <= Len(pattern_parts) + 1
  /\ \A k \in 2..Len(stack) :
       /\ Len(stack[k].patterns) < Len(stack[k - 1].patterns)
       /\ stack[k].patterns # <<>>
       /\ ~HasMarker(GetRow(stack[k].key).cols)

\* C10: _find_paths terminates on every store, cyclic ones included: each
\* recursive call gets a strictly shorter, non-empty pattern list, the depth
\* never exceeds the number of pattern segments plus one, and rows with the
\* leaf marker are never recursed into.
C10_FindPathsTerminates ==
  /\ []NestingBounded
  /\ <>(fpc \in {"done", "raised"})

\* a recursive call on the row of its own caller: a store with a cycle
C10_Witness ==
  /\ fpc = "running"
  /\ Len(stack) = 2
  /\ stack[2].key = stack[1].key
  /\ stack[2].phase = "loop"
  /\ stack[2].todo # <<>>

=============================================================================
